---- MODULE Spec2Model ----
(***************************************************************************)
(* Model of client/appengine_devices.go (astarte-go): the device list      *)
(* paginator as driven by a caller and by ListDevices, and the device      *)
(* accessors that resolve a device identifier before issuing a request.    *)
(*                                                                         *)
(* DeviceListPaginator's methods (HasNextPage, GetNextPage), the resolver  *)
(* resolveDeviceIdentifierType, devicePath and defaultPageSize are defined *)
(* in other files of the package; they are modelled from the written       *)
(* specification.  The AppEngine backend and the HTTP transport are the    *)
(* environment.                                                            *)
(***************************************************************************)
EXTENDS Integers, Sequences, FiniteSets, TLC

VARIABLES
    caller,          \* which client program runs: "paginator", "list" or "device"
    devices,         \* backend: the realm's device IDs, in the server's order
    exhaustedPolicy, \* what GetNextPage does on an exhausted paginator (fixed per build)
    reqs,            \* transport log: every GET issued to the collection endpoint
    pag,             \* the DeviceListPaginator a caller drives by hand
    pageSizeArg,     \* the pageSize argument given to GetDeviceListPaginator
    lastOp,          \* the last method the caller invoked on pag
    hasRet,          \* what the last HasNextPage() returned
    lastRet,         \* what the last GetNextPage() returned: [page, err]
    fetched,         \* the pages the caller's successful GetNextPage calls returned
    ldPc,            \* ListDevices: position in the function
    ldPaginator,     \* ListDevices: local variable paginator
    ldHasNext,       \* ListDevices: loop variable hasNext
    ldResult,        \* ListDevices: local variable result
    ldRet,           \* ListDevices: the returned ([]string, error)
    ldLast,          \* ListDevices: the last call made on its paginator, and what HasNextPage returned
    devCall,         \* device accessor: the arguments of the last call
    devReq,          \* device accessor: the request the last call issued
    devRet,          \* device accessor: the error the last call returned
    devArgs,         \* device accessor: the arguments the caller passes
    devSent,         \* device accessor: the requests the last call issued
    devOut,          \* device accessor: the value the last call returned
    srv,             \* backend: the registered device's aliases, metadata, inhibition
    aliasTrail,      \* device accessor: progress of an add-then-delete of an alias
    heap,            \* two paginators: the url.Values maps the paginators refer to
    pairPag,         \* two paginators: the paginators the caller holds
    pairFetched,     \* two paginators: the pages each one returned, in order
    pairLast,        \* two paginators: the one the last call was made on
    pairFails        \* two paginators: the failed fetches so far

vars == <<caller, devices, exhaustedPolicy, reqs, pag, pageSizeArg, lastOp, hasRet,
          lastRet, fetched, ldPc, ldPaginator, ldHasNext, ldResult, ldRet, ldLast,
          devCall, devReq, devRet, devArgs, devSent, devOut, srv, aliasTrail,
          heap, pairPag, pairFetched, pairLast, pairFails>>

pagVars == <<pag, pageSizeArg, lastOp, hasRet, lastRet, fetched>>
ldVars == <<ldPc, ldPaginator, ldHasNext, ldResult, ldRet, ldLast>>
devVars == <<devCall, devReq, devRet, devArgs, devSent, devOut, srv, aliasTrail>>
pairVars == <<heap, pairPag, pairFetched, pairLast, pairFails>>

(***************************************************************************)
(* Bounds of the model.                                                    *)
(***************************************************************************)
MaxDevices == 4
MaxPageSize == 3
MaxFailures == 2
MaxIdLen == 3
MaxFetches == 4

Min(a, b) == IF a < b THEN a ELSE b

Realms == {"r1", "r2"}

\* Backends: the realm holds the first n device IDs of a list that is neither
\* ascending nor descending (the client never looks inside a device ID).
ServerOrder == [i \in 1..MaxDevices |-> IF i % 2 = 1 THEN i + 1 ELSE i - 1]
Backends == {SubSeq(ServerOrder, 1, n) : n \in 0..MaxDevices}

\* Outcomes of one HTTP exchange: success, or a transport, status or decode failure.
Failures == {"transport", "status", "decode"}
Outcomes == {"ok"} \cup Failures

(***************************************************************************)
(* DeviceIdentifierType and its three values (iota).                       *)
(***************************************************************************)
AutodiscoverDeviceIdentifier == 0
AstarteDeviceID == 1
AstarteDeviceAlias == 2
DeviceIdentifierType ==
    {AutodiscoverDeviceIdentifier, AstarteDeviceID, AstarteDeviceAlias}

(***************************************************************************)
(* url.Values: a set of <<key, value>> pairs, one per key.                 *)
(***************************************************************************)
EmptyQuery == {}
QuerySet(q, k, v) == {p \in q : p[1] # k} \cup {<<k, v>>}
QueryHas(q, k) == \E p \in q : p[1] = k
QueryGet(q, k) == (CHOOSE p \in q : p[1] = k)[2]

(***************************************************************************)
(* The backend's collection endpoint, GET /v1/{realm}/devices: the page of *)
(* at most "limit" identifiers that starts after the "next" token, and a   *)
(* continuation token when identifiers remain after the page.              *)
(***************************************************************************)
ServerReply(devs, query) ==
    LET from == IF QueryHas(query, "next") THEN QueryGet(query, "next") ELSE 0
        to == Min(from + QueryGet(query, "limit"), Len(devs))
    IN  [status |-> "ok",
         data |-> SubSeq(devs, from + 1, to),
         links |-> IF to < Len(devs) THEN {<<"next", to>>} ELSE {}]

\* What the transport hands back for one GET: the backend's reply, or a failure.
Transport(devs, query, outcome) ==
    IF outcome = "ok" THEN ServerReply(devs, query)
    ELSE [status |-> outcome, data |-> <<>>, links |-> {}]

\* A backend that never stops: after the last identifier the continuation token
\* leads back to the first one, so every page comes with a token.
EndlessReply(devs, query) ==
    LET r == ServerReply(devs, query)
    IN  [r EXCEPT !.links = IF r.links = {} THEN {<<"next", 0>>} ELSE r.links]

EndlessTransport(devs, query, outcome) ==
    IF outcome = "ok" THEN EndlessReply(devs, query)
    ELSE [status |-> outcome, data |-> <<>>, links |-> {}]

(***************************************************************************)
(* GetDeviceListPaginator: no request; has-next true, empty query.         *)
(* s.appEngineURL is a parsed URL, so url.Parse of its String() succeeds   *)
(* and the error return (and ListDevices' early return on it) is not       *)
(* taken.  s.client is the transport, which is the environment here.       *)
(***************************************************************************)
\* Faulty variants of GetDeviceListPaginator: a paginator born exhausted, one born with a
\* continuation token in its query, and one that stores the wrong page size.
GetDeviceListPaginator_BornExhausted(realm, pageSize) ==
    [baseURL |-> <<"v1", realm, "devices">>, nextQuery |-> EmptyQuery,
     pageSize |-> pageSize, hasNextPage |-> FALSE]
GetDeviceListPaginator_StaleQuery(realm, pageSize) ==
    [baseURL |-> <<"v1", realm, "devices">>, nextQuery |-> {<<"next", 1>>},
     pageSize |-> pageSize, hasNextPage |-> TRUE]
GetDeviceListPaginator_OffByOne(realm, pageSize) ==
    [baseURL |-> <<"v1", realm, "devices">>, nextQuery |-> EmptyQuery,
     pageSize |-> pageSize + 1, hasNextPage |-> TRUE]

GetDeviceListPaginator(realm, pageSize) ==
    [baseURL |-> <<"v1", realm, "devices">>,
     nextQuery |-> EmptyQuery,
     pageSize |-> pageSize,
     hasNextPage |-> TRUE]

\* The zero value DeviceListPaginator{}.
ZeroPaginator ==
    [baseURL |-> <<>>, nextQuery |-> EmptyQuery, pageSize |-> 0, hasNextPage |-> FALSE]

(***************************************************************************)
(* DeviceListPaginator.HasNextPage and GetNextPage.                        *)
(***************************************************************************)
\* Faulty variant of HasNextPage: reading the flag clears it.
HasNextPage_Consumes(p) ==
    [pag |-> [p EXCEPT !.hasNextPage = FALSE], ret |-> p.hasNextPage, sent |-> FALSE]

\* HasNextPage: the paginator afterwards, the returned flag, and whether a GET
\* was issued.
HasNextPage(p) == [pag |-> p, ret |-> p.hasNextPage, sent |-> FALSE]

\* The query of the GET a paginator issues: its query state plus its page size.
PageQuery(p) == QuerySet(p.nextQuery, "limit", p.pageSize)

\* Faulty variants of GetNextPage: a failed fetch ends the traversal; a call on an
\* exhausted paginator fetches again.
GetNextPage_ConsumesOnFailure(p, reply) ==
    IF ~p.hasNextPage
    THEN [pag |-> p, page |-> <<>>,
          err |-> IF exhaustedPolicy = "error" THEN "exhausted" ELSE "nil",
          sent |-> FALSE]
    ELSE IF reply.status # "ok"
    THEN [pag |-> [p EXCEPT !.hasNextPage = FALSE], page |-> <<>>,
          err |-> reply.status, sent |-> TRUE]
    ELSE [pag |-> IF reply.links # {}
                  THEN [p EXCEPT !.nextQuery = reply.links]
                  ELSE [p EXCEPT !.hasNextPage = FALSE],
          page |-> reply.data, err |-> "nil", sent |-> TRUE]
GetNextPage_RefetchesWhenExhausted(p, reply) ==
    IF reply.status # "ok"
    THEN [pag |-> p, page |-> <<>>, err |-> reply.status, sent |-> TRUE]
    ELSE [pag |-> IF reply.links # {}
                  THEN [p EXCEPT !.nextQuery = reply.links]
                  ELSE [p EXCEPT !.hasNextPage = FALSE],
          page |-> reply.data, err |-> "nil", sent |-> TRUE]

\* GetNextPage given the transport's reply to its GET: the paginator afterwards,
\* the returned page and error, and whether a GET was issued at all.
GetNextPage(p, reply) ==
    IF ~p.hasNextPage
    THEN [pag |-> p, page |-> <<>>,
          err |-> IF exhaustedPolicy = "error" THEN "exhausted" ELSE "nil",
          sent |-> FALSE]
    ELSE IF reply.status # "ok"
    THEN [pag |-> p, page |-> <<>>, err |-> reply.status, sent |-> TRUE]
    ELSE [pag |-> IF reply.links # {}
                  THEN [p EXCEPT !.nextQuery = reply.links]
                  ELSE [p EXCEPT !.hasNextPage = FALSE],
          page |-> reply.data, err |-> "nil", sent |-> TRUE]

\* The transport log entry of one GET of the collection endpoint.
LogEntry(p, reply) ==
    [url |-> p.baseURL, query |-> PageQuery(p), status |-> reply.status,
     data |-> reply.data, links |-> reply.links]

Failed(log) == {i \in 1..Len(log) : log[i].status # "ok"}
NumFailed(log) == Cardinality(Failed(log))

(***************************************************************************)
(* A caller driving a paginator by hand.                                   *)
(***************************************************************************)
CallHasNextPage ==
    /\ caller = "paginator"
    /\ LET h == HasNextPage(pag)
       IN  /\ pag' = h.pag
           /\ hasRet' = h.ret
           /\ reqs' = IF h.sent
                      THEN Append(reqs, LogEntry(pag, Transport(devices, PageQuery(pag), "ok")))
                      ELSE reqs
    /\ lastOp' = "HasNextPage"
    /\ UNCHANGED <<caller, devices, exhaustedPolicy, pageSizeArg, lastRet, fetched>>
    /\ UNCHANGED ldVars /\ UNCHANGED devVars /\ UNCHANGED pairVars

CallGetNextPage ==
    /\ caller = "paginator"
    /\ \E outcome \in Outcomes :
        /\ outcome \in Failures => NumFailed(reqs) < MaxFailures
        /\ LET reply == Transport(devices, PageQuery(pag), outcome)
               r == GetNextPage(pag, reply)
           IN  /\ pag' = r.pag
               /\ lastRet' = [page |-> r.page, err |-> r.err]
               /\ reqs' = IF r.sent THEN Append(reqs, LogEntry(pag, reply)) ELSE reqs
               /\ fetched' = IF r.sent /\ r.err = "nil"
                             THEN Append(fetched, r.page) ELSE fetched
    /\ lastOp' = "GetNextPage"
    /\ UNCHANGED <<caller, devices, exhaustedPolicy, pageSizeArg, hasRet>>
    /\ UNCHANGED ldVars /\ UNCHANGED devVars /\ UNCHANGED pairVars

(***************************************************************************)
(* ListDevices: the paginator is built with defaultPageSize, then the loop *)
(* for hasNext := HasNextPage(); hasNext; hasNext = HasNextPage() fetches  *)
(* one page per iteration.  defaultPageSize is set in another file of the  *)
(* package; the model gives it a small value so that a listing spans       *)
(* several pages.                                                          *)
(***************************************************************************)
defaultPageSize == 2

\* Faulty variant of ListDevicesBegin: the paginator is built with another page size.
ListDevicesBegin_OtherPageSize(realm) ==
    [paginator |-> GetDeviceListPaginator(realm, defaultPageSize + 1),
     result |-> <<>>]

\* Faulty variant of ListDevicesBegin: the paginator is taken as already exhausted.
ListDevicesBegin_NothingToFetch(realm) ==
    [paginator |-> [GetDeviceListPaginator(realm, defaultPageSize)
                       EXCEPT !.hasNextPage = FALSE],
     result |-> <<>>]

\* result := []string{}; paginator := GetDeviceListPaginator(realm, defaultPageSize);
\* hasNext := paginator.HasNextPage()
ListDevicesBegin(realm) ==
    [paginator |-> GetDeviceListPaginator(realm, defaultPageSize),
     result |-> <<>>]

\* Faulty variant of ListDevicesIterate: the loop is left after one page.
ListDevicesIterate_OnePage(result, r) ==
    IF r.err # "nil"
    THEN [pc |-> "done", result |-> result, ret |-> [list |-> <<>>, err |-> r.err]]
    ELSE [pc |-> "done", result |-> result \o r.page,
          ret |-> [list |-> result \o r.page, err |-> "nil"]]

\* Faulty variants of ListDevicesIterate: the page is put in front of the result; the
\* pages fetched so far are returned with the error.
ListDevicesIterate_Prepends(result, r) ==
    IF r.err # "nil"
    THEN [pc |-> "done", result |-> result, ret |-> [list |-> <<>>, err |-> r.err]]
    ELSE [pc |-> "loop", result |-> r.page \o result,
          ret |-> [list |-> <<>>, err |-> "nil"]]
ListDevicesIterate_KeepsPartial(result, r) ==
    IF r.err # "nil"
    THEN [pc |-> "done", result |-> result, ret |-> [list |-> result, err |-> r.err]]
    ELSE [pc |-> "loop", result |-> result \o r.page,
          ret |-> [list |-> <<>>, err |-> "nil"]]

\* One iteration of the loop body, given what GetNextPage returned (r): either the
\* function returns ([]string{}, err), or the page is appended and the loop goes on.
\* Faulty variant of ListDevicesIterate: a failed fetch is tried again.
ListDevicesIterate_RetriesOnError(result, r) ==
    IF r.err # "nil"
    THEN [pc |-> "loop", result |-> result, ret |-> [list |-> <<>>, err |-> "nil"]]
    ELSE [pc |-> "loop", result |-> result \o r.page,
          ret |-> [list |-> <<>>, err |-> "nil"]]

ListDevicesIterate(result, r) ==
    IF r.err # "nil"
    THEN [pc |-> "done", result |-> result, ret |-> [list |-> <<>>, err |-> r.err]]
    ELSE [pc |-> "loop", result |-> result \o r.page,
          ret |-> [list |-> <<>>, err |-> "nil"]]

\* The callers of ListDevices: one against a backend whose list ends, one against a
\* backend that never stops handing out tokens.
ListCallers == {"list", "listEndless"}
ListTransport(query, outcome) ==
    IF caller = "listEndless" THEN EndlessTransport(devices, query, outcome)
    ELSE Transport(devices, query, outcome)

\* Faulty variant of ListDevicesLoopCond: the loop goes on whatever HasNextPage said.
ListDevicesLoopCond_Always(hasNext) == TRUE

\* The condition of the for loop: hasNext.
ListDevicesLoopCond(hasNext) == hasNext

ListDevicesCall ==
    /\ caller \in ListCallers
    /\ ldPc = "idle"
    /\ ldPaginator = ZeroPaginator
    /\ \E realm \in Realms :
        LET b == ListDevicesBegin(realm)
            h == HasNextPage(b.paginator)
        IN  /\ ldPaginator' = h.pag
            /\ ldResult' = b.result
            /\ ldHasNext' = h.ret
            /\ ldLast' = [op |-> "HasNextPage", ret |-> h.ret]
            /\ reqs' = IF h.sent
                       THEN Append(reqs, LogEntry(b.paginator,
                                Transport(devices, PageQuery(b.paginator), "ok")))
                       ELSE reqs
    /\ ldPc' = "loop"
    /\ UNCHANGED <<caller, devices, exhaustedPolicy, ldRet>>
    /\ UNCHANGED pagVars /\ UNCHANGED devVars /\ UNCHANGED pairVars

ListDevicesLoopBody ==
    /\ caller \in ListCallers
    /\ ldPc = "loop"
    /\ ListDevicesLoopCond(ldHasNext)
    /\ caller = "listEndless" => Len(reqs) < MaxFetches
    /\ \E outcome \in Outcomes :
        LET reply == ListTransport(PageQuery(ldPaginator), outcome)
            r == GetNextPage(ldPaginator, reply)
            it == ListDevicesIterate(ldResult, r)
            sent1 == IF r.sent THEN Append(reqs, LogEntry(ldPaginator, reply)) ELSE reqs
            h == HasNextPage(r.pag)
        IN  /\ ldPc' = it.pc
            /\ ldResult' = it.result
            /\ ldRet' = it.ret
            /\ IF it.pc = "loop"
               THEN /\ ldPaginator' = h.pag
                    /\ ldHasNext' = h.ret
                    /\ ldLast' = [op |-> "HasNextPage", ret |-> h.ret]
                    /\ reqs' = IF h.sent
                               THEN Append(sent1, LogEntry(r.pag,
                                        Transport(devices, PageQuery(r.pag), "ok")))
                               ELSE sent1
               ELSE /\ ldPaginator' = r.pag
                    /\ ldHasNext' = ldHasNext
                    /\ ldLast' = [op |-> "GetNextPage", ret |-> ldLast.ret]
                    /\ reqs' = sent1
    /\ UNCHANGED <<caller, devices, exhaustedPolicy>>
    /\ UNCHANGED pagVars /\ UNCHANGED devVars /\ UNCHANGED pairVars

\* The loop condition is false: return result, nil.
ListDevicesReturn ==
    /\ caller \in ListCallers
    /\ ldPc = "loop"
    /\ ~ListDevicesLoopCond(ldHasNext)
    /\ ldRet' = [list |-> ldResult, err |-> "nil"]
    /\ ldPc' = "done"
    /\ UNCHANGED <<caller, devices, exhaustedPolicy, reqs, ldPaginator, ldHasNext,
                   ldResult, ldLast>>
    /\ UNCHANGED pagVars /\ UNCHANGED devVars /\ UNCHANGED pairVars

(***************************************************************************)
(* Device identifiers.  A canonical Device ID is a fixed-length string of  *)
(* URL-safe base64 characters; the model scales the length down and keeps  *)
(* one character of the alphabet and one outside it.                       *)
(***************************************************************************)
DeviceIDLen == 2
URLSafeChars == {"A"}
Chars == URLSafeChars \cup {"!"}
Identifiers == UNION {[1..n -> Chars] : n \in 0..MaxIdLen}

\* The format check: decode the string as URL-safe base64, one character at a time.
RECURSIVE DecodesURLSafe(_)
DecodesURLSafe(s) ==
    IF s = <<>> THEN TRUE
    ELSE IF Head(s) \in URLSafeChars THEN DecodesURLSafe(Tail(s))
    ELSE FALSE

IsValidAstarteDeviceID(s) == DecodesURLSafe(s) /\ Len(s) = DeviceIDLen

resolveDeviceIdentifierType(deviceIdentifier, deviceIdentifierType) ==
    CASE deviceIdentifierType = AutodiscoverDeviceIdentifier ->
            IF IsValidAstarteDeviceID(deviceIdentifier)
            THEN AstarteDeviceID ELSE AstarteDeviceAlias
      [] OTHER -> deviceIdentifierType

devicePath(deviceIdentifier, deviceIdentifierType) ==
    CASE deviceIdentifierType = AstarteDeviceAlias ->
            <<"devices-by-alias", deviceIdentifier>>
      [] OTHER -> <<"devices", deviceIdentifier>>

(***************************************************************************)
(* Request paths.  fmt.Sprintf puts the identifier last and path.Join      *)
(* cleans the result, so an empty identifier leaves no segment.            *)
(***************************************************************************)
PathJoin(segments, last) == IF last = <<>> THEN segments ELSE Append(segments, last)

\* json.Marshal of the payload values: a Go string (the empty one too) is a JSON
\* string, a nil interface{} is null, a bool is a JSON boolean.
MarshalString(s) == <<"string", s>>
MarshalNil == <<"null">>
MarshalBool(b) == <<"bool", b>>

(***************************************************************************)
(* The backend's devices of the device-detail and mutation endpoints: one  *)
(* device registered in one realm, found by its ID or by one of its        *)
(* aliases.  A PATCH sets each key it carries, and deletes the key when    *)
(* the value is null.                                                      *)
(***************************************************************************)
Tags == {"t1", "t2"}
Values == {<<>>, <<"!">>}
ServerRealm == "r1"
ServerDeviceID == [i \in 1..DeviceIDLen |-> "A"]
InitialServer ==
    [aliases |-> {<<"t2", <<"!">>>>}, metadata |-> {<<"t2", <<"!">>>>},
     inhibited |-> FALSE]
NoDetails == [device_id |-> <<>>, aliases |-> {}, metadata |-> {},
              credentials_inhibited |-> FALSE]

Found(s, path) ==
    /\ Len(path) = 4
    /\ path[2] = ServerRealm
    /\ \/ path[3] = "devices" /\ path[4] = ServerDeviceID
       \/ path[3] = "devices-by-alias" /\ \E p \in s.aliases : p[2] = path[4]

PatchMap(m, payload, field) ==
    LET mine == {e \in payload : e[1] = field}
    IN  {p \in m : ~\E e \in mine : e[2] = p[1]}
        \cup {<<e[2], e[3][2]>> : e \in {x \in mine : x[3][1] = "string"}}

ApplyPatch(s, payload) ==
    [aliases |-> PatchMap(s.aliases, payload, "aliases"),
     metadata |-> PatchMap(s.metadata, payload, "metadata"),
     inhibited |-> IF \E e \in payload : e[1] = "credentials_inhibited"
                   THEN (CHOOSE e \in payload : e[1] = "credentials_inhibited")[2][2]
                   ELSE s.inhibited]

ServerInterfaces == <<"i1", "i2">>
ServerStats == [total_devices |-> Cardinality({ServerDeviceID}), connected_devices |-> 0]

\* What the backend has at a path, for the shape the client decodes into.
Serves(s, request) ==
    CASE request.method = "PATCH" -> Found(s, request.path)
      [] request.method = "GET" /\ request.into = "DeviceDetails" -> Found(s, request.path)
      [] request.method = "GET" /\ request.into = "[]string" ->
            /\ Len(request.path) = 5
            /\ Found(s, SubSeq(request.path, 1, 4))
      [] request.method = "GET" /\ request.into = "DevicesStats" ->
            request.path[2] = ServerRealm

\* One HTTP exchange with the backend: the status the client sees, the decoded
\* body, and the backend afterwards.  A device that is not found is a status error.
DeviceExchange(s, request, outcome) ==
    IF outcome # "ok" THEN [status |-> outcome, body |-> NoDetails, srv |-> s]
    ELSE IF ~Serves(s, request) THEN [status |-> "status", body |-> NoDetails, srv |-> s]
    ELSE IF request.method = "GET" /\ request.into = "[]string"
    THEN [status |-> "ok", body |-> ServerInterfaces, srv |-> s]
    ELSE IF request.method = "GET" /\ request.into = "DevicesStats"
    THEN [status |-> "ok", body |-> ServerStats, srv |-> s]
    ELSE IF request.method = "GET"
    THEN [status |-> "ok",
          body |-> [device_id |-> ServerDeviceID, aliases |-> s.aliases,
                    metadata |-> s.metadata, credentials_inhibited |-> s.inhibited],
          srv |-> s]
    ELSE [status |-> "ok", body |-> NoDetails, srv |-> ApplyPatch(s, request.payload)]

ErrOf(status) == IF status = "ok" THEN "nil" ELSE status

\* Faulty variant of GetDevice: the declared identifier type is not passed on.
GetDevice_IgnoresDeclaredType(realm, deviceIdentifier, deviceIdentifierType) ==
    LET resolvedDeviceIdentifierType ==
            resolveDeviceIdentifierType(deviceIdentifier, AutodiscoverDeviceIdentifier)
        dp == devicePath(deviceIdentifier, resolvedDeviceIdentifierType)
    IN  [resolved |-> resolvedDeviceIdentifierType,
         request |-> [method |-> "GET", into |-> "DeviceDetails",
                      path |-> PathJoin(<<"v1", realm, dp[1]>>, dp[2])]]

(***************************************************************************)
(* GetDevice: resolve the identifier type, build the path, issue one GET.  *)
(***************************************************************************)
GetDevice(realm, deviceIdentifier, deviceIdentifierType) ==
    LET resolvedDeviceIdentifierType ==
            resolveDeviceIdentifierType(deviceIdentifier, deviceIdentifierType)
        dp == devicePath(deviceIdentifier, resolvedDeviceIdentifierType)
    IN  [resolved |-> resolvedDeviceIdentifierType,
         request |-> [method |-> "GET", into |-> "DeviceDetails",
                      path |-> PathJoin(<<"v1", realm, dp[1]>>, dp[2])]]

\* GetDevice with the exchange done: the requests issued, the returned
\* (DeviceDetails, error), and the backend afterwards.
GetDeviceDone(realm, deviceIdentifier, deviceIdentifierType, s, outcome) ==
    LET g == GetDevice(realm, deviceIdentifier, deviceIdentifierType)
        x == DeviceExchange(s, g.request, outcome)
    IN  [sent |-> <<g.request>>, out |-> x.body, err |-> ErrOf(x.status),
         srv |-> x.srv, resolved |-> g.resolved]

(***************************************************************************)
(* GetDeviceIDFromAlias and GetDeviceIDFromDeviceIdentifier.               *)
(***************************************************************************)
GetDeviceIDFromAlias(realm, deviceAlias, s, outcome) ==
    LET r == GetDeviceDone(realm, deviceAlias, AstarteDeviceAlias, s, outcome)
    IN  IF r.err # "nil"
        THEN [sent |-> r.sent, out |-> <<>>, err |-> r.err, srv |-> r.srv]
        ELSE [sent |-> r.sent, out |-> r.out.device_id, err |-> "nil", srv |-> r.srv]

\* Faulty variant: the device is looked up whatever the resolved type is.
GetDeviceIDFromDeviceIdentifier_AlwaysLooksUp(realm, deviceIdentifier, deviceIdentifierType, s, outcome) ==
    GetDeviceIDFromAlias(realm, deviceIdentifier, s, outcome)

GetDeviceIDFromDeviceIdentifier(realm, deviceIdentifier, deviceIdentifierType, s, outcome) ==
    LET resolvedDeviceIdentifierType ==
            resolveDeviceIdentifierType(deviceIdentifier, deviceIdentifierType)
    IN  CASE resolvedDeviceIdentifierType = AstarteDeviceAlias ->
                GetDeviceIDFromAlias(realm, deviceIdentifier, s, outcome)
          [] OTHER ->
                [sent |-> <<>>, out |-> deviceIdentifier, err |-> "nil", srv |-> s]

(***************************************************************************)
(* ListDeviceAliases and ListDeviceMetadata: GetDevice, then one field of  *)
(* the details (nil on error).                                             *)
(***************************************************************************)
ListDeviceAliases(realm, deviceID, s, outcome) ==
    LET r == GetDeviceDone(realm, deviceID, AstarteDeviceID, s, outcome)
    IN  [sent |-> r.sent, out |-> IF r.err # "nil" THEN {} ELSE r.out.aliases,
         err |-> r.err, srv |-> r.srv]

ListDeviceMetadata(realm, deviceIdentifier, deviceIdentifierType, s, outcome) ==
    LET r == GetDeviceDone(realm, deviceIdentifier, deviceIdentifierType, s, outcome)
    IN  [sent |-> r.sent, out |-> IF r.err # "nil" THEN {} ELSE r.out.metadata,
         err |-> r.err, srv |-> r.srv]

(***************************************************************************)
(* ListDeviceInterfaces and GetDevicesStats: one GET each, the decoded     *)
(* value and the error returned as they are.                               *)
(***************************************************************************)
ListDeviceInterfaces(realm, deviceIdentifier, deviceIdentifierType, s, outcome) ==
    LET resolvedDeviceIdentifierType ==
            resolveDeviceIdentifierType(deviceIdentifier, deviceIdentifierType)
        dp == devicePath(deviceIdentifier, resolvedDeviceIdentifierType)
        request == [method |-> "GET", into |-> "[]string",
                    path |-> Append(PathJoin(<<"v1", realm, dp[1]>>, dp[2]), "interfaces")]
        x == DeviceExchange(s, request, outcome)
    IN  [sent |-> <<request>>,
         out |-> IF x.status = "ok" THEN x.body ELSE <<>>,
         err |-> ErrOf(x.status), srv |-> x.srv]

GetDevicesStats(realm, s, outcome) ==
    LET request == [method |-> "GET", into |-> "DevicesStats",
                    path |-> <<"v1", realm, "stats", "devices">>]
        x == DeviceExchange(s, request, outcome)
    IN  [sent |-> <<request>>,
         out |-> IF x.status = "ok" THEN x.body
                 ELSE [total_devices |-> 0, connected_devices |-> 0],
         err |-> ErrOf(x.status), srv |-> x.srv]

(***************************************************************************)
(* The mutating accessors: the PATCH each one builds.                      *)
(***************************************************************************)
\* Faulty variant of AddDeviceAlias: an empty alias is sent as null.
AddDeviceAlias_EmptyAsNull(realm, deviceID, aliasTag, deviceAlias) ==
    [method |-> "PATCH",
     path |-> PathJoin(<<"v1", realm, "devices">>, deviceID),
     payload |-> {<<"aliases", aliasTag,
                    IF deviceAlias = <<>> THEN MarshalNil
                    ELSE MarshalString(deviceAlias)>>}]

AddDeviceAlias(realm, deviceID, aliasTag, deviceAlias) ==
    [method |-> "PATCH",
     path |-> PathJoin(<<"v1", realm, "devices">>, deviceID),
     payload |-> {<<"aliases", aliasTag, MarshalString(deviceAlias)>>}]

\* Faulty variant of DeleteDeviceAlias: the empty string is sent instead of null.
DeleteDeviceAlias_SendsEmptyString(realm, deviceID, aliasTag) ==
    [method |-> "PATCH",
     path |-> PathJoin(<<"v1", realm, "devices">>, deviceID),
     payload |-> {<<"aliases", aliasTag, MarshalString(<<>>)>>}]

DeleteDeviceAlias(realm, deviceID, aliasTag) ==
    [method |-> "PATCH",
     path |-> PathJoin(<<"v1", realm, "devices">>, deviceID),
     payload |-> {<<"aliases", aliasTag, MarshalNil>>}]

\* Faulty variant of InhibitDevice: the path is always built under devices/.
InhibitDevice_AlwaysDevices(realm, deviceIdentifier, deviceIdentifierType, inhibit) ==
    [method |-> "PATCH",
     path |-> PathJoin(<<"v1", realm, "devices">>, deviceIdentifier),
     payload |-> {<<"credentials_inhibited", MarshalBool(inhibit)>>}]

InhibitDevice(realm, deviceIdentifier, deviceIdentifierType, inhibit) ==
    LET resolvedDeviceIdentifierType ==
            resolveDeviceIdentifierType(deviceIdentifier, deviceIdentifierType)
        dp == devicePath(deviceIdentifier, resolvedDeviceIdentifierType)
    IN  [method |-> "PATCH",
         path |-> PathJoin(<<"v1", realm, dp[1]>>, dp[2]),
         payload |-> {<<"credentials_inhibited", MarshalBool(inhibit)>>}]

SetDeviceMetadata(realm, deviceIdentifier, deviceIdentifierType, metadataKey, metadataValue) ==
    LET resolvedDeviceIdentifierType ==
            resolveDeviceIdentifierType(deviceIdentifier, deviceIdentifierType)
        dp == devicePath(deviceIdentifier, resolvedDeviceIdentifierType)
    IN  [method |-> "PATCH",
         path |-> PathJoin(<<"v1", realm, dp[1]>>, dp[2]),
         payload |-> {<<"metadata", metadataKey, MarshalString(metadataValue)>>}]

DeleteDeviceMetadata(realm, deviceIdentifier, deviceIdentifierType, metadataKey) ==
    LET resolvedDeviceIdentifierType ==
            resolveDeviceIdentifierType(deviceIdentifier, deviceIdentifierType)
        dp == devicePath(deviceIdentifier, resolvedDeviceIdentifierType)
    IN  [method |-> "PATCH",
         path |-> PathJoin(<<"v1", realm, dp[1]>>, dp[2]),
         payload |-> {<<"metadata", metadataKey, MarshalNil>>}]

\* A mutating accessor with the exchange done: one PATCH, the error returned.
PatchDone(request, s, outcome) ==
    LET x == DeviceExchange(s, request, outcome)
    IN  [sent |-> <<request>>, out |-> {}, err |-> ErrOf(x.status), srv |-> x.srv]

(***************************************************************************)
(* A caller of the device accessors.  The arguments it passes (devArgs)    *)
(* are fixed when the program starts; it may call any accessor, any number *)
(* of times, and each exchange may succeed or fail.                        *)
(***************************************************************************)
\* What a call leaves behind: the arguments, the requests issued, the results.
Called(op, resolved, r) ==
    /\ devCall' = [op |-> op, realm |-> devArgs.realm,
                   identifier |-> devArgs.identifier,
                   declared |-> devArgs.declared, resolved |-> resolved]
    /\ devSent' = r.sent
    /\ devReq' = IF r.sent = <<>> THEN devReq ELSE r.sent[Len(r.sent)]
    /\ devOut' = r.out
    /\ devRet' = r.err
    /\ srv' = r.srv
    /\ UNCHANGED <<caller, devices, exhaustedPolicy, reqs, devArgs>>
    /\ UNCHANGED pagVars /\ UNCHANGED ldVars /\ UNCHANGED pairVars

Resolved == resolveDeviceIdentifierType(devArgs.identifier, devArgs.declared)

\* The alias trail: a successful AddDeviceAlias, then a successful
\* DeleteDeviceAlias of the same tag on the same device, with the aliases the
\* device had before the two.  Reads keep it; every other call ends it.
NoTrail == [stage |-> "none", before |-> {}]

CallGetDevice ==
    /\ caller = "device"
    /\ \E outcome \in Outcomes :
        LET a == devArgs
            r == GetDeviceDone(a.realm, a.identifier, a.declared, srv, outcome)
        IN  Called("GetDevice", r.resolved, r)
    /\ UNCHANGED aliasTrail

CallGetDeviceIDFromDeviceIdentifier ==
    /\ caller = "device"
    /\ \E outcome \in Outcomes :
        LET a == devArgs
            r == GetDeviceIDFromDeviceIdentifier(a.realm, a.identifier, a.declared,
                                                 srv, outcome)
        IN  Called("GetDeviceIDFromDeviceIdentifier", Resolved, r)
    /\ UNCHANGED aliasTrail

CallListDeviceAliases ==
    /\ caller = "device"
    /\ \E outcome \in Outcomes :
        LET a == devArgs
            r == ListDeviceAliases(a.realm, a.identifier, srv, outcome)
        IN  Called("ListDeviceAliases", AstarteDeviceID, r)
    /\ UNCHANGED aliasTrail

CallListDeviceMetadata ==
    /\ caller = "device"
    /\ \E outcome \in Outcomes :
        LET a == devArgs
            r == ListDeviceMetadata(a.realm, a.identifier, a.declared, srv, outcome)
        IN  Called("ListDeviceMetadata", Resolved, r)
    /\ UNCHANGED aliasTrail

CallListDeviceInterfaces ==
    /\ caller = "device"
    /\ \E outcome \in Outcomes :
        LET a == devArgs
            r == ListDeviceInterfaces(a.realm, a.identifier, a.declared, srv, outcome)
        IN  Called("ListDeviceInterfaces", Resolved, r)
    /\ UNCHANGED aliasTrail

CallGetDevicesStats ==
    /\ caller = "device"
    /\ \E outcome \in Outcomes :
        LET r == GetDevicesStats(devArgs.realm, srv, outcome)
        IN  Called("GetDevicesStats", Resolved, r)
    /\ UNCHANGED aliasTrail

CallAddDeviceAlias ==
    /\ caller = "device"
    /\ \E outcome \in Outcomes :
        LET a == devArgs
            r == PatchDone(AddDeviceAlias(a.realm, a.identifier, a.tag, a.value),
                           srv, outcome)
        IN  /\ Called("AddDeviceAlias", AstarteDeviceID, r)
            /\ aliasTrail' = IF r.err = "nil"
                             THEN [stage |-> "added", before |-> srv.aliases]
                             ELSE NoTrail

CallDeleteDeviceAlias ==
    /\ caller = "device"
    /\ \E outcome \in Outcomes :
        LET a == devArgs
            r == PatchDone(DeleteDeviceAlias(a.realm, a.identifier, a.tag), srv, outcome)
        IN  /\ Called("DeleteDeviceAlias", AstarteDeviceID, r)
            /\ aliasTrail' = IF r.err = "nil" /\ aliasTrail.stage = "added"
                             THEN [aliasTrail EXCEPT !.stage = "deleted"]
                             ELSE NoTrail

CallInhibitDevice ==
    /\ caller = "device"
    /\ \E outcome \in Outcomes, inhibit \in BOOLEAN :
        LET a == devArgs
            r == PatchDone(InhibitDevice(a.realm, a.identifier, a.declared, inhibit),
                           srv, outcome)
        IN  Called("InhibitDevice", Resolved, r)
    /\ aliasTrail' = NoTrail

CallSetDeviceMetadata ==
    /\ caller = "device"
    /\ \E outcome \in Outcomes :
        LET a == devArgs
            r == PatchDone(SetDeviceMetadata(a.realm, a.identifier, a.declared,
                                             a.tag, a.value), srv, outcome)
        IN  Called("SetDeviceMetadata", Resolved, r)
    /\ aliasTrail' = NoTrail

CallDeleteDeviceMetadata ==
    /\ caller = "device"
    /\ \E outcome \in Outcomes :
        LET a == devArgs
            r == PatchDone(DeleteDeviceMetadata(a.realm, a.identifier, a.declared,
                                                a.tag), srv, outcome)
        IN  Called("DeleteDeviceMetadata", Resolved, r)
    /\ aliasTrail' = NoTrail

(***************************************************************************)
(* Two paginators of one service.  In Go a url.Values is a map, so a       *)
(* paginator holds a reference to its query; the maps live in heap, and    *)
(* GetDeviceListPaginator makes a new one for every paginator it returns.  *)
(* The other fields of the paginator are held by value.                    *)
(***************************************************************************)
\* Faulty variant of NewValues: the service hands out one query map to all.
NewValues_Shared(h) ==
    IF h = <<>> THEN [heap |-> <<EmptyQuery>>, ref |-> 1] ELSE [heap |-> h, ref |-> 1]

\* query := url.Values{}
NewValues(h) == [heap |-> Append(h, EmptyQuery), ref |-> Len(h) + 1]

\* The paginator with its query read through the reference.
Deref(h, p) == [p EXCEPT !.nextQuery = h[p.nextQuery]]

\* The devices of a realm: the second realm lists them in the opposite order.
RECURSIVE Reverse(_)
Reverse(s) == IF s = <<>> THEN <<>> ELSE Append(Reverse(Tail(s)), Head(s))
RealmDevices(devs, realm) == IF realm = ServerRealm THEN devs ELSE Reverse(devs)

PairGetPaginator ==
    /\ caller = "pair"
    /\ Len(pairPag) < 2
    /\ \E realm \in Realms, pageSize \in {pageSizeArg, defaultPageSize} :
        LET q == NewValues(heap)
            p == GetDeviceListPaginator(realm, pageSize)
        IN  /\ heap' = q.heap
            /\ pairPag' = Append(pairPag, [p EXCEPT !.nextQuery = q.ref])
    /\ pairFetched' = Append(pairFetched, <<>>)
    /\ pairLast' = Len(pairPag) + 1
    /\ UNCHANGED <<caller, devices, exhaustedPolicy, reqs, pairFails>>
    /\ UNCHANGED pagVars /\ UNCHANGED ldVars /\ UNCHANGED devVars

PairGetNextPage ==
    /\ caller = "pair"
    /\ \E i \in 1..Len(pairPag), outcome \in Outcomes :
        /\ outcome \in Failures => pairFails < MaxFailures
        /\ LET p == pairPag[i]
               v == Deref(heap, p)
               reply == Transport(RealmDevices(devices, v.baseURL[2]), PageQuery(v), outcome)
               r == GetNextPage(v, reply)
           IN  /\ heap' = [heap EXCEPT ![p.nextQuery] = r.pag.nextQuery]
               /\ pairPag' = [pairPag EXCEPT ![i] = [r.pag EXCEPT !.nextQuery = p.nextQuery]]
               /\ pairFetched' = IF r.sent /\ r.err = "nil"
                                 THEN [pairFetched EXCEPT ![i] = Append(@, r.page)]
                                 ELSE pairFetched
               /\ pairFails' = IF r.sent /\ outcome \in Failures
                               THEN pairFails + 1 ELSE pairFails
        /\ pairLast' = i
    /\ UNCHANGED <<caller, devices, exhaustedPolicy, reqs>>
    /\ UNCHANGED pagVars /\ UNCHANGED ldVars /\ UNCHANGED devVars

(***************************************************************************)
(* Initial states and the specification.                                   *)
(***************************************************************************)
NoArgs == [realm |-> "", identifier |-> <<>>, declared |-> AutodiscoverDeviceIdentifier,
           tag |-> "", value |-> <<>>]

NoRet == [page |-> <<>>, err |-> "nil"]

InitPaginator ==
    /\ caller = "paginator"
    /\ devArgs = NoArgs
    /\ exhaustedPolicy \in {"empty", "error"}
    /\ devices \in Backends
    /\ pageSizeArg \in 1..MaxPageSize
    /\ \E realm \in Realms : pag = GetDeviceListPaginator(realm, pageSizeArg)

\* The caller's own paginator is not used by the other client programs.
InitList ==
    /\ caller = "list"
    /\ devArgs = NoArgs
    /\ exhaustedPolicy \in {"empty", "error"}
    /\ devices \in Backends
    /\ pageSizeArg = defaultPageSize
    /\ pag = ZeroPaginator

InitDevice ==
    /\ caller = "device"
    /\ exhaustedPolicy = "error"
    /\ devices = <<>>
    /\ pageSizeArg = defaultPageSize
    /\ pag = ZeroPaginator
    /\ devArgs \in [realm : Realms, identifier : Identifiers,
                    declared : DeviceIdentifierType, tag : Tags, value : Values]

InitListEndless ==
    /\ caller = "listEndless"
    /\ devArgs = NoArgs
    /\ exhaustedPolicy \in {"empty", "error"}
    /\ devices \in Backends
    /\ pageSizeArg = defaultPageSize
    /\ pag = ZeroPaginator

\* The caller of two paginators has none yet.
InitPair ==
    /\ caller = "pair"
    /\ devArgs = NoArgs
    /\ exhaustedPolicy \in {"empty", "error"}
    /\ devices \in Backends
    /\ pageSizeArg \in 1..MaxPageSize
    /\ pag = ZeroPaginator

NoCall == [op |-> "none", realm |-> "", identifier |-> <<>>,
           declared |-> AutodiscoverDeviceIdentifier,
           resolved |-> AutodiscoverDeviceIdentifier]
NoRequest == [method |-> "", path |-> <<>>]

Init ==
    /\ reqs = <<>>
    /\ lastOp = "new"
    /\ hasRet = TRUE
    /\ lastRet = NoRet
    /\ fetched = <<>>
    /\ ldPc = "idle"
    /\ ldPaginator = ZeroPaginator
    /\ ldHasNext = FALSE
    /\ ldResult = <<>>
    /\ ldRet = [list |-> <<>>, err |-> "nil"]
    /\ ldLast = [op |-> "none", ret |-> FALSE]
    /\ devCall = NoCall
    /\ devReq = NoRequest
    /\ devRet = "nil"
    /\ devSent = <<>>
    /\ devOut = {}
    /\ srv = InitialServer
    /\ aliasTrail = NoTrail
    /\ heap = <<>>
    /\ pairPag = <<>>
    /\ pairFetched = <<>>
    /\ pairLast = 0
    /\ pairFails = 0
    /\ (InitPaginator \/ InitList \/ InitListEndless \/ InitDevice \/ InitPair)

Next ==
    \/ CallHasNextPage
    \/ CallGetNextPage
    \/ ListDevicesCall
    \/ ListDevicesLoopBody
    \/ ListDevicesReturn
    \/ PairGetPaginator
    \/ PairGetNextPage
    \/ CallGetDevice
    \/ CallGetDeviceIDFromDeviceIdentifier
    \/ CallListDeviceAliases
    \/ CallListDeviceMetadata
    \/ CallListDeviceInterfaces
    \/ CallGetDevicesStats
    \/ CallAddDeviceAlias
    \/ CallDeleteDeviceAlias
    \/ CallInhibitDevice
    \/ CallSetDeviceMetadata
    \/ CallDeleteDeviceMetadata

Spec == Init /\ [][Next]_vars

\* ListDevices runs to its return: every call it makes blocks until the HTTP
\* exchange completes or fails, and then the function takes its next step.
FairSpec ==
    /\ Spec
    /\ WF_vars(ListDevicesCall)
    /\ WF_vars(ListDevicesLoopBody)
    /\ WF_vars(ListDevicesReturn)

(***************************************************************************)
(* Helpers of the properties.                                              *)
(***************************************************************************)
Limit(e) == QueryGet(e.query, "limit")
SentToken(e) == {p \in e.query : p[1] = "next"}
CeilDiv(n, p) == (n + p - 1) \div p
Max(S) == CHOOSE x \in S : \A y \in S : y <= x

RECURSIVE Flatten(_)
Flatten(pages) == IF pages = <<>> THEN <<>> ELSE Head(pages) \o Flatten(Tail(pages))

\* The last GET of the log, and whether the step just taken issued a GET.
LastReq(log) == log[Len(log)]
IssuedOne == Len(reqs') = Len(reqs) + 1

\* A caller that drives a fresh paginator by hand, with no failure, until
\* HasNextPage() is false, and concatenates the pages in arrival order.
RECURSIVE ManualDrive(_, _)
ManualDrive(p, devs) ==
    LET h == HasNextPage(p)
    IN  IF ~h.ret THEN <<>>
        ELSE LET r == GetNextPage(h.pag, ServerReply(devs, PageQuery(h.pag)))
             IN  r.page \o ManualDrive(r.pag, devs)

(***************************************************************************)
(* C1: a GetNextPage that fails (transport, status or decode) leaves the   *)
(* cursor as it was: token, page size and has-next flag are unchanged and  *)
(* HasNextPage() answers as before; and the GetNextPage that succeeds      *)
(* after a failed one returns the page the backend holds for the failed    *)
(* request.                                                                *)
(***************************************************************************)
C1Step ==
    /\ (CallGetNextPage /\ lastRet'.err \in Failures) =>
          /\ pag'.nextQuery = pag.nextQuery
          /\ pag'.pageSize = pag.pageSize
          /\ pag'.hasNextPage = pag.hasNextPage
          /\ HasNextPage(pag').ret = HasNextPage(pag).ret
    /\ (/\ CallGetNextPage
        /\ Len(reqs) > 0
        /\ LastReq(reqs).status # "ok"
        /\ IssuedOne
        /\ LastReq(reqs').status = "ok") =>
          /\ LastReq(reqs').query = LastReq(reqs).query
          /\ lastRet'.page = ServerReply(devices, LastReq(reqs).query).data
C1Theorem == [][C1Step]_vars
C1Witness ==
    /\ caller = "paginator"
    /\ \E i \in 2..(Len(reqs) - 1) :
          /\ reqs[i].status # "ok"
          /\ SentToken(reqs[i]) # {}
          /\ reqs[i + 1].status = "ok"
          /\ reqs[i + 1].data # <<>>

(***************************************************************************)
(* C2 as stated: for every page size P >= 1 and backend of N devices, a    *)
(* paginator driven without failures until HasNextPage() is false has      *)
(* returned exactly the N identifiers in the backend's order, in exactly   *)
(* ceil(N/P) fetches, each page holding at most P items.                   *)
(***************************************************************************)
DrivenToExhaustion ==
    /\ caller = "paginator"
    /\ ~pag.hasNextPage
    /\ NumFailed(reqs) = 0
C2Original ==
    DrivenToExhaustion =>
        /\ Flatten(fetched) = devices
        /\ Len(fetched) = Len(reqs)
        /\ Len(reqs) = CeilDiv(Len(devices), pageSizeArg)
        /\ \A i \in 1..Len(fetched) : Len(fetched[i]) <= pageSizeArg

(***************************************************************************)
(* C2 amended: the same, with the number of fetches being ceil(N/P) when   *)
(* N >= 1 and exactly one (an empty page) when N = 0.                      *)
(***************************************************************************)
C2Theorem ==
    DrivenToExhaustion =>
        /\ Flatten(fetched) = devices
        /\ Len(fetched) = Len(reqs)
        /\ Len(reqs) = IF Len(devices) = 0 THEN 1
                       ELSE CeilDiv(Len(devices), pageSizeArg)
        /\ \A i \in 1..Len(fetched) : Len(fetched[i]) <= pageSizeArg
C2Witness ==
    /\ DrivenToExhaustion
    /\ Len(devices) = 3
    /\ pageSizeArg = 2
    /\ Len(reqs) = 2
    /\ fetched = <<SubSeq(devices, 1, 2), SubSeq(devices, 3, 3)>>

(***************************************************************************)
(* C3: when no page fetch fails, the list ListDevices returns is the       *)
(* concatenation, in arrival order, of the pages a caller gets by driving  *)
(* a fresh paginator over the same backend by hand until HasNextPage() is  *)
(* false, whatever page size that caller chose.                            *)
(***************************************************************************)
C3Theorem ==
    (caller = "list" /\ ldPc = "done" /\ ldRet.err = "nil") =>
        \A realm \in Realms, P \in 1..MaxPageSize :
            ldRet.list = ManualDrive(GetDeviceListPaginator(realm, P), devices)
C3Witness ==
    /\ caller = "list"
    /\ ldPc = "done"
    /\ ldRet.err = "nil"
    /\ Len(reqs) >= 2
    /\ Len(ldRet.list) >= 3

(***************************************************************************)
(* C4: a failed page fetch, at whatever page index, is the last fetch of   *)
(* ListDevices, which returns that error with an empty list: none of the   *)
(* identifiers fetched before the failure is returned.                     *)
(***************************************************************************)
C4Theorem ==
    caller = "list" =>
        \A i \in Failed(reqs) :
            /\ i = Len(reqs)
            /\ ldPc = "done"
            /\ ldRet = [list |-> <<>>, err |-> reqs[i].status]
C4Witness ==
    /\ caller = "list"
    /\ ldPc = "done"
    /\ Len(reqs) >= 2
    /\ LastReq(reqs).status = "decode"
    /\ ldResult # <<>>
    /\ ldRet.list = <<>>

(***************************************************************************)
(* C5: a paginator's has-next flag is true from construction until the     *)
(* first successful fetch whose response carries no continuation token,    *)
(* and once false it is never true again, whatever is called afterwards.   *)
(***************************************************************************)
SawLastPage == \E i \in 1..Len(reqs) : reqs[i].status = "ok" /\ reqs[i].links = {}
C5Flag ==
    /\ caller = "paginator" => (pag.hasNextPage <=> ~SawLastPage)
    /\ (caller = "list" /\ ldPc # "idle") => (ldPaginator.hasNextPage <=> ~SawLastPage)
C5Step ==
    /\ ~pag.hasNextPage => ~pag'.hasNextPage
    /\ (ldPc # "idle" /\ ~ldPaginator.hasNextPage) => ~ldPaginator'.hasNextPage
C5Theorem == []C5Flag /\ [][C5Step]_vars
C5Witness ==
    /\ caller = "paginator"
    /\ ~pag.hasNextPage
    /\ Len(reqs) >= 2
    /\ lastOp = "GetNextPage"
    /\ lastRet.err = "exhausted"

(***************************************************************************)
(* C6: a successful GetNextPage leaves the paginator with has-next true    *)
(* and exactly the response's continuation token as its query state when   *)
(* the response carried one, and with has-next false when it carried none; *)
(* so every fetch sends the token of the latest successful fetch before    *)
(* it, and no token when there is none (the first fetch in particular).    *)
(***************************************************************************)
C6Log ==
    \A i \in 1..Len(reqs) :
        LET before == {j \in 1..(i - 1) : reqs[j].status = "ok"}
        IN  SentToken(reqs[i]) = IF before = {} THEN {} ELSE reqs[Max(before)].links
C6After(p, e) ==
    IF e.links # {}
    THEN p.hasNextPage /\ p.nextQuery = e.links
    ELSE ~p.hasNextPage
C6Step ==
    /\ (CallGetNextPage /\ IssuedOne /\ LastReq(reqs').status = "ok") =>
          C6After(pag', LastReq(reqs'))
    /\ (ListDevicesLoopBody /\ IssuedOne /\ LastReq(reqs').status = "ok") =>
          C6After(ldPaginator', LastReq(reqs'))
C6Theorem == []C6Log /\ [][C6Step]_vars
C6Witness ==
    /\ caller = "paginator"
    /\ Len(reqs) >= 3
    /\ reqs[1].status = "ok"
    /\ reqs[2].status # "ok"
    /\ reqs[3].status = "ok"
    /\ SentToken(reqs[3]) = reqs[1].links
    /\ reqs[1].links # {}
    /\ pag.hasNextPage
    /\ pag.nextQuery = reqs[3].links

(***************************************************************************)
(* C7: GetNextPage on an exhausted paginator has one fixed outcome, the    *)
(* same on every such call: an empty page with no error, or an error; it   *)
(* returns no identifier, issues no fetch, and the paginator stays         *)
(* exhausted.                                                              *)
(***************************************************************************)
ExhaustedOutcome ==
    [page |-> <<>>, err |-> IF exhaustedPolicy = "error" THEN "exhausted" ELSE "nil"]
C7Step ==
    /\ exhaustedPolicy' = exhaustedPolicy
    /\ (CallGetNextPage /\ ~pag.hasNextPage) =>
          /\ lastRet' = ExhaustedOutcome
          /\ ~pag'.hasNextPage
          /\ pag' = pag
          /\ reqs' = reqs
          /\ fetched' = fetched
C7Theorem == [][C7Step]_vars
C7Witness ==
    /\ caller = "paginator"
    /\ exhaustedPolicy = "empty"
    /\ Len(devices) >= 1
    /\ ~pag.hasNextPage
    /\ lastOp = "GetNextPage"
    /\ lastRet = [page |-> <<>>, err |-> "nil"]

(***************************************************************************)
(* C8: every fetch of a paginator carries the page size given to           *)
(* GetDeviceListPaginator, which no GetNextPage, successful or failed,     *)
(* changes; every fetch of ListDevices carries defaultPageSize.            *)
(***************************************************************************)
C8Theorem ==
    /\ caller = "paginator" =>
          /\ pag.pageSize = pageSizeArg
          /\ \A i \in 1..Len(reqs) : Limit(reqs[i]) = pageSizeArg
    /\ caller = "list" =>
          /\ ldPc # "idle" => ldPaginator.pageSize = defaultPageSize
          /\ \A i \in 1..Len(reqs) : Limit(reqs[i]) = defaultPageSize
C8Witness ==
    /\ caller = "list"
    /\ ldPc = "done"
    /\ Len(reqs) >= 2
    /\ NumFailed(reqs) = 1

(***************************************************************************)
(* C9: HasNextPage() is a pure read: it issues no request, leaves token,   *)
(* page size and has-next flag unchanged and returns the flag, so a        *)
(* HasNextPage() right after another returns the same value.               *)
(***************************************************************************)
C9Step ==
    CallHasNextPage =>
        /\ reqs' = reqs
        /\ pag' = pag
        /\ hasRet' = pag.hasNextPage
        /\ lastOp = "HasNextPage" => hasRet' = hasRet
C9Theorem == [][C9Step]_vars
C9Witness ==
    /\ caller = "paginator"
    /\ lastOp = "HasNextPage"
    /\ ~hasRet
    /\ Len(reqs) >= 2
    /\ NumFailed(reqs) >= 1

(***************************************************************************)
(* C10: the identifier type GetDevice resolves is the declared type when   *)
(* that is ID or Alias, whatever the identifier looks like; when the       *)
(* declared type is autodetect it is ID exactly when the identifier has    *)
(* the canonical-ID shape and Alias otherwise; it is never autodetect.     *)
(***************************************************************************)
CanonicalShape(id) ==
    /\ Len(id) = DeviceIDLen
    /\ \A i \in 1..Len(id) : id[i] \in URLSafeChars
C10Theorem ==
    devCall.op = "GetDevice" =>
        /\ devCall.declared \in {AstarteDeviceID, AstarteDeviceAlias} =>
              devCall.resolved = devCall.declared
        /\ devCall.declared = AutodiscoverDeviceIdentifier =>
              devCall.resolved = IF CanonicalShape(devCall.identifier)
                                 THEN AstarteDeviceID ELSE AstarteDeviceAlias
        /\ devCall.resolved # AutodiscoverDeviceIdentifier
C10Witness ==
    /\ devCall.op = "GetDevice"
    /\ devCall.declared = AstarteDeviceAlias
    /\ CanonicalShape(devCall.identifier)
    /\ devCall.resolved = AstarteDeviceAlias
    /\ devReq.path[3] = "devices-by-alias"

(***************************************************************************)
(* C11: after AddDeviceAlias(realm, device, tag, value) has succeeded and  *)
(* then DeleteDeviceAlias(realm, device, tag) has succeeded, a following   *)
(* successful GetDevice or ListDeviceAliases of the device returns aliases *)
(* that do not hold the tag, and every other tag is as it was before.      *)
(***************************************************************************)
ReturnedAliases(op, out) == IF op = "GetDevice" THEN out.aliases ELSE out
C11Step ==
    (/\ aliasTrail.stage = "deleted"
     /\ devCall'.op \in {"GetDevice", "ListDeviceAliases"}
     /\ devRet' = "nil") =>
        LET al == ReturnedAliases(devCall'.op, devOut')
        IN  /\ ~\E p \in al : p[1] = devArgs.tag
            /\ al = {p \in aliasTrail.before : p[1] # devArgs.tag}
C11Theorem == [][C11Step]_vars
C11Witness ==
    /\ aliasTrail.stage = "deleted"
    /\ devCall.op = "ListDeviceAliases"
    /\ devRet = "nil"
    /\ devOut # {}
    /\ devArgs.value = <<>>

(***************************************************************************)
(* C12: a delete operation always sends its key with an explicit null, a   *)
(* set operation always sends the string it was given, the empty string    *)
(* too; a set with the empty string is never the delete payload and never  *)
(* deletes the key.                                                        *)
(***************************************************************************)
PayloadField(op) ==
    IF op \in {"AddDeviceAlias", "DeleteDeviceAlias"} THEN "aliases" ELSE "metadata"
StoredUnder(op, s) == IF PayloadField(op) = "aliases" THEN s.aliases ELSE s.metadata
C12Theorem ==
    /\ devCall.op \in {"DeleteDeviceAlias", "DeleteDeviceMetadata"} =>
          /\ Len(devSent) = 1
          /\ devSent[1].payload = {<<PayloadField(devCall.op), devArgs.tag, <<"null">>>>}
    /\ devCall.op \in {"AddDeviceAlias", "SetDeviceMetadata"} =>
          /\ Len(devSent) = 1
          /\ devSent[1].payload =
                {<<PayloadField(devCall.op), devArgs.tag, <<"string", devArgs.value>>>>}
          /\ \A e \in devSent[1].payload : e[3] # <<"null">>
          /\ devRet = "nil" =>
                <<devArgs.tag, devArgs.value>> \in StoredUnder(devCall.op, srv)
C12Witness ==
    /\ devCall.op = "AddDeviceAlias"
    /\ devArgs.value = <<>>
    /\ devArgs.tag = "t2"
    /\ devRet = "nil"
    /\ <<"t2", <<>>>> \in srv.aliases

(***************************************************************************)
(* C13: every mutating operation issues one PATCH.  AddDeviceAlias and     *)
(* DeleteDeviceAlias send it to /v1/{realm}/devices/{deviceID} whatever    *)
(* the identifier is; InhibitDevice, SetDeviceMetadata and                 *)
(* DeleteDeviceMetadata send it to /v1/{realm}/devices/{identifier} when   *)
(* the identifier resolves to a device ID and to                           *)
(* /v1/{realm}/devices-by-alias/{identifier} when it resolves to an alias. *)
(* An empty identifier leaves no last path segment.                        *)
(***************************************************************************)
AliasOps == {"AddDeviceAlias", "DeleteDeviceAlias"}
TypedMutatingOps == {"InhibitDevice", "SetDeviceMetadata", "DeleteDeviceMetadata"}
MutatingOps == AliasOps \cup TypedMutatingOps
AccessorOps ==
    {"GetDevice", "GetDeviceIDFromDeviceIdentifier", "ListDeviceInterfaces",
     "ListDeviceAliases", "ListDeviceMetadata", "GetDevicesStats"} \cup MutatingOps
\* C14 for the accessors as the specification states it: always exactly one request.
C14Original == devCall.op \in AccessorOps => Len(devSent) = 1
C14Accessors ==
    devCall.op \in AccessorOps =>
        Len(devSent) = IF /\ devCall.op = "GetDeviceIDFromDeviceIdentifier"
                          /\ devCall.resolved # AstarteDeviceAlias
                       THEN 0 ELSE 1
C14List ==
    caller = "list" =>
        /\ NumFailed(reqs) <= 1
        /\ \A i \in Failed(reqs) :
              /\ i = Len(reqs)
              /\ ldPc = "done"
              /\ ldRet = [list |-> <<>>, err |-> reqs[i].status]
C14Step ==
    /\ CallGetNextPage => IF pag.hasNextPage THEN IssuedOne ELSE reqs' = reqs
    /\ ListDevicesLoopBody => IssuedOne
    /\ ldPc = "done" => reqs' = reqs
C14Theorem == []C14Accessors /\ []C14List /\ [][C14Step]_vars
C14Witness ==
    /\ caller = "list"
    /\ ldPc = "done"
    /\ Len(reqs) = 2
    /\ reqs[1].status = "ok"
    /\ reqs[2].status # "ok"
    /\ ldRet.err = reqs[2].status

(***************************************************************************)
(* C15: two paginators obtained from the same service, for the same realm  *)
(* or different ones, share no cursor state: a GetNextPage on one,         *)
(* successful or failed, in any interleaving with calls on the other,      *)
(* leaves the other's token, page size and has-next flag unchanged, and    *)
(* each reaches the pages it would reach if it were driven alone.          *)
(***************************************************************************)
\* A fresh paginator after n successful fetches, with nothing else going on.
RECURSIVE DrivenAlone(_, _, _)
DrivenAlone(p, devs, n) ==
    IF n = 0 THEN [pag |-> p, pages |-> <<>>]
    ELSE LET prev == DrivenAlone(p, devs, n - 1)
             r == GetNextPage(prev.pag, Transport(devs, PageQuery(prev.pag), "ok"))
         IN  [pag |-> r.pag, pages |-> Append(prev.pages, r.page)]
C15Alone ==
    \A j \in 1..Len(pairPag) :
        LET realm == pairPag[j].baseURL[2]
            alone == DrivenAlone(GetDeviceListPaginator(realm, pairPag[j].pageSize),
                                 RealmDevices(devices, realm), Len(pairFetched[j]))
        IN  /\ pairFetched[j] = alone.pages
            /\ Deref(heap, pairPag[j]) = alone.pag
C15Step ==
    \A j \in 1..Len(pairPag) :
        j # pairLast' => Deref(heap', pairPag'[j]) = Deref(heap, pairPag[j])
C15Theorem == []C15Alone /\ [][C15Step]_vars
C15Witness ==
    /\ Len(pairPag) = 2
    /\ pairPag[1].baseURL = pairPag[2].baseURL
    /\ pairPag[1].pageSize # pairPag[2].pageSize
    /\ Len(pairFetched[1]) = 2
    /\ Len(pairFetched[2]) = 1
    /\ ~pairPag[1].hasNextPage
    /\ pairPag[2].hasNextPage
    /\ pairFails >= 1
    /\ pairLast = 1

(***************************************************************************)
(* C16: ListDevices never calls GetNextPage on a paginator whose           *)
(* HasNextPage() is false: every GetNextPage it makes comes right after a  *)
(* HasNextPage() that returned true, so the error of the exhausted state   *)
(* cannot be reached through ListDevices.                                  *)
(***************************************************************************)
C16Reached == caller = "list" => ldRet.err # "exhausted"
C16Step ==
    ListDevicesLoopBody =>
        /\ ldLast = [op |-> "HasNextPage", ret |-> TRUE]
        /\ HasNextPage(ldPaginator).ret
        /\ IssuedOne
        /\ ldRet'.err # "exhausted"
C16Theorem == []C16Reached /\ [][C16Step]_vars
C16Witness ==
    /\ caller = "list"
    /\ exhaustedPolicy = "error"
    /\ ldPc = "done"
    /\ ldRet.err = "nil"
    /\ Len(reqs) = 2
    /\ ~HasNextPage(ldPaginator).ret
    /\ ldLast = [op |-> "HasNextPage", ret |-> FALSE]

(***************************************************************************)
(* C17: GetDeviceListPaginator issues no request and returns a paginator   *)
(* with has-next true and an empty query, so ListDevices always makes at   *)
(* least one fetch; over a realm with no device it returns the empty list  *)
(* after exactly that one fetch.                                           *)
(***************************************************************************)
C17Done ==
    (caller = "list" /\ ldPc = "done") =>
        /\ Len(reqs) >= 1
        /\ reqs[1].query = QuerySet(EmptyQuery, "limit", defaultPageSize)
        /\ (devices = <<>> /\ ldRet.err = "nil") =>
              /\ Len(reqs) = 1
              /\ ldRet.list = <<>>
C17Step ==
    /\ ListDevicesCall =>
          /\ reqs' = reqs
          /\ ldPaginator'.hasNextPage
          /\ ldPaginator'.nextQuery = EmptyQuery
          /\ ldHasNext'
    /\ PairGetPaginator =>
          /\ reqs' = reqs
          /\ pairPag'[pairLast'].hasNextPage
          /\ heap'[pairPag'[pairLast'].nextQuery] = EmptyQuery
C17Theorem == []C17Done /\ [][C17Step]_vars
C17Witness ==
    /\ caller = "list"
    /\ devices = <<>>
    /\ ldPc = "done"
    /\ ldRet = [list |-> <<>>, err |-> "nil"]
    /\ Len(reqs) = 1
    /\ reqs[1].status = "ok"
    /\ reqs[1].data = <<>>

(***************************************************************************)
(* C19: GetDeviceIDFromDeviceIdentifier issues a request only when the     *)
(* resolved identifier type is an alias: then it makes exactly one         *)
(* device-detail GET and returns the DeviceID of the response, or the      *)
(* empty string with the error when the GET fails.  Otherwise it returns   *)
(* the identifier unchanged with a nil error and issues no request.        *)
(***************************************************************************)
C19Theorem ==
    devCall.op = "GetDeviceIDFromDeviceIdentifier" =>
        IF devCall.resolved = AstarteDeviceAlias
        THEN /\ Len(devSent) = 1
             /\ devSent[1].method = "GET"
             /\ devSent[1].path =
                   IF devCall.identifier = <<>>
                   THEN <<"v1", devCall.realm, "devices-by-alias">>
                   ELSE <<"v1", devCall.realm, "devices-by-alias", devCall.identifier>>
             /\ devRet = "nil" => devOut = ServerDeviceID
             /\ devRet # "nil" => devOut = <<>>
        ELSE /\ devSent = <<>>
             /\ devOut = devCall.identifier
             /\ devRet = "nil"
C19Witness ==
    /\ devCall.op = "GetDeviceIDFromDeviceIdentifier"
    /\ devCall.declared = AutodiscoverDeviceIdentifier
    /\ devCall.resolved = AstarteDeviceAlias
    /\ devRet = "nil"
    /\ devOut = ServerDeviceID
    /\ devOut # devCall.identifier

(***************************************************************************)
(* C18: ListDevices eventually returns whenever the backend, after         *)
(* finitely many pages, either fails or returns a page with no             *)
(* continuation token.  The loop has no bound of its own: against a        *)
(* backend that returns a token on every page each successful iteration    *)
(* goes on to the next, and ListDevices returns only if a fetch fails.     *)
(***************************************************************************)
C18Returns == (caller = "list" /\ ldPc = "idle") ~> (ldPc = "done")
C18Endless ==
    caller = "listEndless" =>
        /\ ldPc = "loop" => ldHasNext /\ \A i \in 1..Len(reqs) : reqs[i].status = "ok"
        /\ ldPc = "done" => ldRet.err \in Failures /\ ldRet.list = <<>>
C18Step ==
    (caller = "listEndless" /\ ListDevicesLoopBody /\ LastReq(reqs').status = "ok") =>
        /\ ldPc' = "loop"
        /\ ldHasNext'
        /\ ldResult' = ldResult \o LastReq(reqs').data
C18Theorem == C18Returns /\ []C18Endless /\ [][C18Step]_vars
C18Witness ==
    /\ caller = "listEndless"
    /\ ldPc = "loop"
    /\ Len(devices) = 3
    /\ Len(reqs) = 3
    /\ reqs[3].data = reqs[1].data
    /\ Len(ldResult) > Len(devices)
    /\ ldHasNext

====
